---- MODULE Spec2Model ----
(***************************************************************************)
(* The conversational draft-review state machine of the Slack bot          *)
(* (src/src/integrations/slack_bot.py): the session store, the dispatch of *)
(* thread replies and reactions, the approval / question / revision        *)
(* routing, the revision engine's bookkeeping and the learning             *)
(* confirmation dialog.                                                    *)
(*                                                                         *)
(* Text is modelled as a sequence of one-character strings, so that        *)
(* lower(), strip(), "in" and startswith() are computed as Python computes *)
(* them.  The two emoji of the affirmation list are the characters         *)
(* "U1F44D" (thumbs-up) and "U2705" (check mark).                          *)
(*                                                                         *)
(* slack_bolt runs every listener on a worker thread, and every listener   *)
(* here blocks in asyncio.run(...), so several events can be in flight     *)
(* together.  A handler is a record in `handlers`; its pc names the        *)
(* blocking call (oracle, record store, chat post) it is waiting in.       *)
(* Consecutive blocking calls between which the handler neither reads nor  *)
(* writes the shared dictionaries are one step, and a handler's record     *)
(* holds the local variables its remaining code still reads.  Spec is that *)
(* program; SpecSerial is the same program with events handled one at a    *)
(* time.                                                                   *)
(***************************************************************************)
EXTENDS Integers, Sequences, FiniteSets, TLC

(* ------------------------------ bounds -------------------------------- *)
\* message ids (Slack ts) the chat transport hands out are 1..MaxTs
MaxTs == 5
\* session objects ever created
MaxSessions == 2
\* the clock runs from 0 to MaxTicks * TickHours hours
MaxTicks == 1
TickHours == 25
\* rows the voice_feedback table takes
MaxFeedback == 2
\* the worker threads: two events can be in flight together
Slots == {1, 2}

(* --------------------------- text primitives -------------------------- *)
exact_matches ==
  << <<"g", "o", "o", "d">>,
    <<"n", "i", "c", "e">>,
    <<"y", "e", "s">>,
    <<"y", "e", "p">>,
    <<"o", "k">>,
    <<"o", "k", "a", "y">>,
    <<"U1F44D">>,
    <<"U2705">> >>

approval_phrases ==
  << <<"t", "h", "i", "s", " ", "i", "s", " ", "g", "o", "o", "d">>,
    <<"t", "h", "a", "t", "'", "s", " ", "g", "o", "o", "d">>,
    <<"t", "h", "a", "t", "s", " ", "g", "o", "o", "d">>,
    <<"l", "o", "o", "k", "s", " ", "g", "o", "o", "d">>,
    <<"i", "s", " ", "g", "o", "o", "d">>,
    <<"p", "e", "r", "f", "e", "c", "t">>,
    <<"d", "o", "n", "e">>,
    <<"a", "p", "p", "r", "o", "v", "e", "d">>,
    <<"u", "s", "e", " ", "t", "h", "i", "s">>,
    <<"u", "s", "e", " ", "i", "t">>,
    <<"t", "h", "a", "t", " ", "w", "o", "r", "k", "s">>,
    <<"t", "h", "i", "s", " ", "w", "o", "r", "k", "s">>,
    <<"l", "o", "v", "e", " ", "i", "t">>,
    <<"l", "o", "v", "e", " ", "t", "h", "i", "s">>,
    <<"g", "r", "e", "a", "t">>,
    <<"f", "i", "n", "a", "l", "i", "z", "e">>,
    <<"l", "o", "c", "k", " ", "i", "t">>,
    <<"s", "h", "i", "p", " ", "i", "t">>,
    <<"g", "o", "o", "d", " ", "t", "o", " ", "g", "o">>,
    <<"l", "g", "t", "m">>,
    <<"l", "e", "t", "'", "s", " ", "g", "o">>,
    <<"l", "e", "t", "s", " ", "g", "o">>,
    <<"a", "l", "l", " ", "g", "o", "o", "d">>,
    <<"w", "e", "'", "r", "e", " ", "g", "o", "o", "d">> >>

valid_intents ==
  << <<"a", "p", "p", "r", "o", "v", "a", "l">>,
    <<"q", "u", "e", "s", "t", "i", "o", "n">>,
    <<"r", "e", "v", "i", "s", "i", "o", "n">> >>

UpperCase == <<"A", "B", "C", "D", "E", "F", "G", "H", "I", "J", "K", "L", "M", "N", "O", "P", "Q", "R", "S", "T", "U", "V", "W", "X", "Y", "Z">>
LowerCase == <<"a", "b", "c", "d", "e", "f", "g", "h", "i", "j", "k", "l", "m", "n", "o", "p", "q", "r", "s", "t", "u", "v", "w", "x", "y", "z">>

Whitespace == {" ", "\n", "\t"}

\* str.lower() on one character
LowerChar(c) ==
  IF \E i \in 1..Len(UpperCase) : UpperCase[i] = c
  THEN LowerCase[CHOOSE i \in 1..Len(UpperCase) : UpperCase[i] = c]
  ELSE c

\* str.lower()
Lower(s) == [i \in 1..Len(s) |-> LowerChar(s[i])]

\* str.strip(): leading and trailing whitespace removed
Strip(s) ==
  LET keep == {i \in 1..Len(s) : s[i] \notin Whitespace}
  IN IF keep = {} THEN <<>>
     ELSE LET lo == CHOOSE i \in keep : \A j \in keep : i <= j
              hi == CHOOSE i \in keep : \A j \in keep : j <= i
          IN SubSeq(s, lo, hi)

\* str.lstrip(chars): leading characters of the set removed
LStripChars(s, chars) ==
  LET keep == {i \in 1..Len(s) : s[i] \notin chars}
  IN IF keep = {} THEN <<>>
     ELSE SubSeq(s, CHOOSE i \in keep : \A j \in keep : i <= j, Len(s))

\* Python's `sub in s` on strings
Contains(s, sub) ==
  \E i \in 1..(Len(s) - Len(sub) + 1) : SubSeq(s, i, i + Len(sub) - 1) = sub

\* str.startswith
StartsWith(s, pre) == Len(pre) <= Len(s) /\ SubSeq(s, 1, Len(pre)) = pre

\* Python's `x in list`
InList(x, list) == \E i \in 1..Len(list) : list[i] = x


(* ------------------------------- data --------------------------------- *)
\* Python None, where the other values are strings
None == "None"
\* Python None / a missing key, where the other values are text or lists
NoText == <<>>
\* a message id that is None
NoTs == 0

\* texts a user sends as a thread reply
ReplyTexts ==
  { <<"y", "e", "s">>,
    <<" ", "O", "K", "\n">>,
    <<"S", "h", "i", "p", " ", "i", "t", "!">>,
    <<"m", "a", "k", "e", " ", "i", "t", " ", "s", "h", "o", "r", "t", "e", "r">>,
    <<"n", "o">> }

\* the replies of the one-thread world
ThreadTexts ==
  << <<"y", "e", "s">>,
     <<"m", "a", "k", "e", " ", "i", "t", " ", "s", "h", "o", "r", "t", "e", "r">> >>

\* events the dispatcher drops before routing: whitespace only, a command
IgnoredTexts == { <<" ", " ">>, <<"!", "h", "e", "l", "p">> }

\* raw answers of the classifier oracle (response.content[0].text)
ClassifierAnswers ==
  { <<"a", "p", "p", "r", "o", "v", "a", "l">>,
    <<" ", "Q", "u", "e", "s", "t", "i", "o", "n", "\n">>,
    <<"r", "e", "v", "i", "s", "i", "o", "n">>,
    <<"A", "p", "p", "r", "o", "v", "e", " ", "i", "t">> }

\* what extract_learnings can return: lists of style statements
LearningsResults ==
  { <<>>,
    << <<"P", "r", "e", "f", "e", "r", "s", " ", "s", "h", "o", "r", "t", "e", "r", " ", "c", "o", "p", "y">>,
       <<"a", "v", "o", "i", "d", " ", "e", "m", "o", "j", "i", "s">> >> }

\* contents the revision oracle can return
RevisedContents == {"R1"}

\* rows of monitored_tweets that the monitor has posted as alerts; row 2 is an
\* alert for which no reply was suggested
monitored_tweets ==
  { [slack_message_ts |-> 1, suggested_content |-> "S1", content |-> "T1",
     account_handle |-> "acct1", relevance_type |-> "reply_opportunity"],
    [slack_message_ts |-> 2, suggested_content |-> None, content |-> "T2",
     account_handle |-> "acct2", relevance_type |-> "news"] }

\* message ids that exist before the bot starts: the two alerts, and a thread
\* root the bot knows nothing about
KnownTs == {1, 2, 3}

\* the active voice reference accounts, in the order the store returns them,
\* each with the contents of its stored samples
voice_accounts ==
  << [twitter_handle |-> <<"K", "o", "b", "e", "i", "s", "s", "i", "L", "e", "t", "t", "e", "r">>,
      voice_pillars |-> {"market_commentary"}, samples |-> <<"v1", "v2">>],
     [twitter_handle |-> <<"q", "u", "i", "e", "t", "a", "c", "c", "t">>,
      voice_pillars |-> {}, samples |-> <<>>] >>

\* hints _detect_voice_request can extract (NoText: not a voice request)
VoiceHints ==
  { NoText,
    <<"@", "K", "o", "b", "e", "i", "s", "s", "i", "L", "e", "t", "t", "e", "r">>,
    <<"m", "a", "r", "k", "e", "t", " ", "g", "u", "y">>,
    <<"n", "o", "b", "o", "d", "y">> }

\* the hint of the one-thread world: it resolves to no account
ThreadHint == <<"n", "o", "b", "o", "d", "y">>

\* answers of the best-guess oracle of _find_voice_reference
MatchAnswers ==
  { <<"@", "q", "u", "i", "e", "t", "a", "c", "c", "t">>,
    <<"n", "o", "n", "e">> }

pillar_keywords ==
  << [keyword |-> <<"m", "a", "r", "k", "e", "t">>, pillar |-> "market_commentary"],
     [keyword |-> <<"c", "o", "m", "m", "e", "n", "t", "a", "r", "y">>, pillar |-> "market_commentary"],
     [keyword |-> <<"e", "d", "u", "c", "a", "t", "i", "o", "n">>, pillar |-> "education"],
     [keyword |-> <<"e", "d", "u", "c", "a", "t", "i", "o", "n", "a", "l">>, pillar |-> "education"],
     [keyword |-> <<"p", "r", "o", "d", "u", "c", "t">>, pillar |-> "product"],
     [keyword |-> <<"s", "o", "c", "i", "a", "l">>, pillar |-> "social_proof"],
     [keyword |-> <<"p", "r", "o", "o", "f">>, pillar |-> "social_proof"] >>

\* the users who write to the bot
Users == {"U1", "U2"}

\* texts a user sends as a top-level message
TopLevelTexts ==
  { <<" ", "C", "a", "n", "c", "e", "l", "\n">>,
    <<"k", "o", "b", "e", "i", "s", "s", "i">>,
    <<"m", "o", "n", "i", "t", "o", "r", " ", "s", "o", "m", "e", "o", "n", "e">> }

\* the replies that cancel a pending confirmation (line 275)
cancel_words ==
  << <<"c", "a", "n", "c", "e", "l">>, <<"n", "e", "v", "e", "r", "m", "i", "n", "d">>, <<"n", "e", "v", "e", "r", " ", "m", "i", "n", "d">>, <<"n", "o">>, <<"n", "o", "p", "e">>, <<"s", "t", "o", "p">> >>

\* the keys of the entities of an intent
EntityKeys == {"handle", "category"}

\* entities = {}: no key has a value
NoEntities == [k \in EntityKeys |-> None]

\* no entry of pending_confirmations
NoPending == [intent |-> None, entities |-> NoEntities, awaiting |-> None]

\* no ParsedIntent
NoParse ==
  [intent |-> None, confidence |-> 0, entities |-> NoEntities,
   clarification_needed |-> None]

\* what intent_parser.parse can return (intent_parser.py lines 120-221):
\* an intent with its entities, the confidence in hundredths, and a question
\* when the parser wants one asked; "unknown" is also what it returns when
\* the oracle call failed
ParsedIntents ==
  {[intent |-> i, confidence |-> 90, entities |-> e, clarification_needed |-> q] :
     i \in {"add_monitor", "list_voices"},
     e \in [EntityKeys -> {None, "given"}],
     q \in {None, "ask"}}
  \cup {[intent |-> "unknown", confidence |-> 0, entities |-> NoEntities,
         clarification_needed |-> None]}

valid_pillars == {"market_commentary", "education", "product", "social_proof"}

approval_reactions == {"white_check_mark", "heavy_check_mark", "+1", "thumbsup"}

\* the maximum age of a session, in hours
SESSION_MAX_AGE == 24

(* ------------------------------- state -------------------------------- *)
VARIABLES
  draft_sessions,         \* self.draft_sessions: thread_ts -> session object
  session_objs,           \* the session dicts themselves, by object identity
  handlers,               \* the events in flight, one per worker thread
  pending_confirmations,  \* self.pending_confirmations: user_id -> entry
  voice_feedback,         \* rows inserted into the voice_feedback table
  now,                    \* datetime.now(timezone.utc), in hours
  next_ts,                \* the next message id the chat transport hands out
  next_sid                \* the next session object's identity

vars == <<draft_sessions, session_objs, handlers, pending_confirmations,
          voice_feedback, now, next_ts, next_sid>>

\* a worker thread that is not handling an event
Idle ==
  [pc |-> "idle", event |-> "none", thread_ts |-> NoTs, reacted_ts |-> NoTs,
   text |-> NoText, sid |-> 0, route |-> "none", answer |-> NoText,
   raised |-> FALSE, messages |-> <<>>, voice_hint |-> NoText,
   voice_handle |-> NoText,
   voice_samples |-> <<>>, current_content |-> None, revised_content |-> None,
   version |-> 0, learnings |-> <<>>, original_content |-> None,
   final_content |-> None, user |-> None, pending |-> NoPending,
   intent |-> None, entities |-> NoEntities, parsed |-> NoParse]

Busy(hr) == hr.pc \notin {"idle", "done"}

\* a seeded fault: the first draft does not carry the id of its message
NewSession_unthreaded(pillar, source, handle, content, ts) ==
  [pillar |-> pillar,
   source_tweet_content |-> source,
   source_tweet_handle |-> handle,
   drafts |-> << [version |-> 0, content |-> content,
                  revision_request |-> NoText, voice_reference |-> NoText,
                  message_ts |-> NoTs] >>,
   status |-> "iterating",
   pending_learnings |-> <<>>,
   created_at |-> now]

\* the session dict a new session starts as (lines 691-705 and 753-769)
NewSession(pillar, source, handle, content, ts) ==
  [pillar |-> pillar,
   source_tweet_content |-> source,
   source_tweet_handle |-> handle,
   drafts |-> << [version |-> 0, content |-> content,
                  revision_request |-> NoText, voice_reference |-> NoText,
                  message_ts |-> ts] >>,
   status |-> "iterating",
   pending_learnings |-> <<>>,
   created_at |-> now]

\* the objects still referenced by the store or by an event in flight; the
\* others are unreachable and freed
Live(ds, hs) ==
  {ds[t] : t \in DOMAIN ds} \cup {hs[h].sid : h \in {k \in Slots : Busy(hs[k])}}

\* the shared dictionaries after a step
Commit(objs, ds, hs) ==
  /\ draft_sessions' = ds
  /\ handlers' = hs
  /\ session_objs' = [s \in (DOMAIN objs) \cap Live(ds, hs) |-> objs[s]]

\* dict.get(thread_ts): the object's identity, 0 for None
Get(ds, thread_ts) == IF thread_ts \in DOMAIN ds THEN ds[thread_ts] ELSE 0

\* d[k] = v on a dictionary
Put(d, k, v) == [x \in (DOMAIN d) \cup {k} |-> IF x = k THEN v ELSE d[x]]

TypeOK ==
  /\ DOMAIN draft_sessions \subseteq 1..MaxTs
  /\ \A t \in DOMAIN draft_sessions : draft_sessions[t] \in DOMAIN session_objs
  /\ DOMAIN session_objs \subseteq 1..MaxSessions
  /\ DOMAIN handlers = Slots
  /\ DOMAIN pending_confirmations \subseteq Users
  /\ now \in 0..(MaxTicks * TickHours)
  /\ next_ts \in 1..(MaxTs + 1)
  /\ next_sid \in 1..(MaxSessions + 1)

Init ==
  /\ draft_sessions = <<>>
  /\ session_objs = <<>>
  /\ handlers = [h \in Slots |-> Idle]
  /\ pending_confirmations = <<>>
  /\ voice_feedback = <<>>
  /\ now = 0
  /\ next_ts = Cardinality(KnownTs) + 1
  /\ next_sid = 1

(* --------------------------- pure functions --------------------------- *)
\* a seeded fault: the text is compared as it was typed, not lower-cased and
\* trimmed
_is_approval_signal_as_typed(text) ==
  \/ InList(text, exact_matches)
  \/ \E i \in 1..Len(approval_phrases) : Contains(text, approval_phrases[i])

\* _is_approval_signal (lines 1019-1036)
_is_approval_signal(text) ==
  LET text_lower == Strip(Lower(text))
  IN \/ InList(text_lower, exact_matches)
     \/ \E i \in 1..Len(approval_phrases) : Contains(text_lower, approval_phrases[i])

\* a seeded fault: an answer is matched by its first letters, and an exception
\* of the oracle call gives "question"
_classify_draft_reply_intent_by_prefix(answer, raised) ==
  LET intent == Lower(Strip(answer))
  IN IF raised THEN "question"
     ELSE IF StartsWith(intent, <<"a", "p", "p", "r">>) THEN "approval"
     ELSE IF StartsWith(intent, <<"q", "u", "e", "s", "t">>) THEN "question"
     ELSE "revision"

\* the tail of _classify_draft_reply_intent (lines 834-841): the raw answer
\* normalised and matched; an exception of the oracle call gives "revision"
_classify_draft_reply_intent(answer, raised) ==
  LET intent == Lower(Strip(answer))
  IN IF raised THEN "revision"
     ELSE IF intent = valid_intents[1] THEN "approval"
     ELSE IF intent = valid_intents[2] THEN "question"
     ELSE IF intent = valid_intents[3] THEN "revision"
     ELSE "revision"

\* _build_revision_messages (lines 1132-1170)
RECURSIVE RevisionHistory(_)
RevisionHistory(drafts) ==
  IF drafts = <<>> THEN <<>>
  ELSE LET draft == Head(drafts)
       IN (IF draft.revision_request # NoText
           THEN << [role |-> "user", content |-> draft.revision_request] >>
           ELSE <<>>)
          \o << [role |-> "assistant", content |-> draft.content] >>
          \o RevisionHistory(Tail(drafts))

\* a seeded fault: the requests of the earlier revisions are left out
_build_revision_messages_without_requests(session, new_request) ==
  (IF session.source_tweet_content # None
   THEN << [role |-> "user",
            content |-> <<"tweet", session.source_tweet_handle,
                          session.source_tweet_content>>] >>
   ELSE <<>>)
  \o [i \in 1..Len(session.drafts) |->
        [role |-> "assistant",
         content |-> IF i = 1 THEN <<"original", session.drafts[1].content>>
                     ELSE session.drafts[i].content]]
  \o << [role |-> "user", content |-> new_request] >>

_build_revision_messages(session, new_request) ==
  (IF session.source_tweet_content # None
   THEN << [role |-> "user",
            content |-> <<"tweet", session.source_tweet_handle,
                          session.source_tweet_content>>] >>
   ELSE <<>>)
  \o (IF session.drafts # <<>>
      THEN << [role |-> "assistant",
               content |-> <<"original", session.drafts[1].content>>] >>
      ELSE <<>>)
  \o RevisionHistory(IF session.drafts = <<>> THEN <<>> ELSE Tail(session.drafts))
  \o << [role |-> "user", content |-> new_request] >>

\* a seeded fault: a session of exactly the maximum age is swept too
_cleanup_old_sessions_at_limit(ds, objs, t) ==
  LET cutoff == t - SESSION_MAX_AGE
      expired == {ts \in DOMAIN ds : objs[ds[ts]].created_at <= cutoff}
  IN [ts \in (DOMAIN ds) \ expired |-> ds[ts]]

\* _cleanup_old_sessions (lines 1262-1270): the store without the sessions
\* created before the cutoff
_cleanup_old_sessions(ds, objs, t) ==
  LET cutoff == t - SESSION_MAX_AGE
      expired == {ts \in DOMAIN ds : objs[ds[ts]].created_at < cutoff}
  IN [ts \in (DOMAIN ds) \ expired |-> ds[ts]]

\* _find_voice_reference (lines 948-1017): the index in voice_accounts of the
\* account the hint resolves to, 0 for None.  store_ok is whether the record
\* store answered; guess is the best-guess oracle's outcome.
_find_voice_reference(hint, store_ok, guess) ==
  LET accounts == 1..Len(voice_accounts)
      First(S) == CHOOSE i \in S : \A j \in S : i <= j
      hint_lower == LStripChars(Strip(Lower(hint)), {"@"})
      handle(i) == Lower(voice_accounts[i].twitter_handle)
      exact == {i \in accounts : handle(i) = hint_lower}
      partial == {i \in accounts : Contains(handle(i), hint_lower)}
      tagged(k) == {i \in accounts :
                      pillar_keywords[k].pillar \in voice_accounts[i].voice_pillars}
      keywords == {k \in 1..Len(pillar_keywords) :
                     /\ Contains(hint_lower, pillar_keywords[k].keyword)
                     /\ tagged(k) # {}}
      matched_handle == LStripChars(Lower(Strip(guess.answer)), {"@"})
      guessed == {i \in accounts : handle(i) = matched_handle}
  IN IF ~store_ok \/ accounts = {} THEN 0
     ELSE IF exact # {} THEN First(exact)
     ELSE IF partial # {} THEN First(partial)
     ELSE IF keywords # {} THEN First(tagged(First(keywords)))
     ELSE IF guess.raised \/ guessed = {} THEN 0
     ELSE First(guessed)

(* ------------------- blocks of handler code, as effects ---------------- *)
\* what a block of handler code leaves: the handler's record and the objects
Eff(hr, objs) == [h |-> hr, objs |-> objs]

\* the handler has returned: what is kept of it is the event it handled and
\* the function the event was routed to
Done(hr) ==
  [Idle EXCEPT !.pc = "done", !.event = hr.event, !.thread_ts = hr.thread_ts,
               !.reacted_ts = hr.reacted_ts, !.route = hr.route,
               !.user = hr.user]

\* the handler goes on past a blocking call: its arguments, without the local
\* variables the code that follows does not read
Frame(hr) ==
  [Idle EXCEPT !.pc = hr.pc, !.event = hr.event, !.thread_ts = hr.thread_ts,
               !.sid = hr.sid, !.route = hr.route]

\* the handler blocks in a call
Waiting(hr, call) == [hr EXCEPT !.pc = call]

\* a seeded fault: the approval does not look at the session's status
_handle_approval_any_status(hr0, objs, ds) ==
  LET sid == Get(ds, hr0.thread_ts)
      hr == [hr0 EXCEPT !.sid = sid]
  IN IF sid = 0 THEN Eff(Done(hr), objs)
     ELSE LET approved == [objs EXCEPT ![sid].status = "approved"]
          IN IF Len(objs[sid].drafts) > 1
             THEN Eff(Waiting(hr, "extract_learnings"), approved)
             ELSE Eff(Waiting(hr, "say_locked"), approved)

\* a seeded fault: learnings are extracted from a single draft too
_handle_approval_always_extracts(hr0, objs, ds) ==
  LET sid == Get(ds, hr0.thread_ts)
      hr == [hr0 EXCEPT !.sid = sid]
  IN IF sid = 0 THEN Eff(Done(hr), objs)
     ELSE IF objs[sid].status # "iterating" THEN Eff(Done(hr), objs)
     ELSE Eff(Waiting(hr, "extract_learnings"),
              [objs EXCEPT ![sid].status = "approved"])

\* _handle_approval up to its first blocking call (lines 1172-1187, 1204-1205)
_handle_approval(hr0, objs, ds) ==
  LET sid == Get(ds, hr0.thread_ts)
      hr == [hr0 EXCEPT !.sid = sid]
  IN IF sid = 0 THEN Eff(Done(hr), objs)
     ELSE IF objs[sid].status # "iterating" THEN Eff(Done(hr), objs)
     ELSE LET approved == [objs EXCEPT ![sid].status = "approved"]
          IN IF Len(objs[sid].drafts) > 1
             THEN Eff(Waiting(hr, "extract_learnings"), approved)
             ELSE Eff(Waiting(hr, "say_locked"), approved)

\* str.split(): the words of a text, split at runs of whitespace
RECURSIVE Split(_)
Split(s) ==
  LET t == LStripChars(s, Whitespace)
      ends == {i \in 1..Len(t) : t[i] \in Whitespace}
  IN IF t = <<>> THEN <<>>
     ELSE IF ends = {} THEN <<t>>
     ELSE LET e == CHOOSE i \in ends : \A j \in ends : i <= j
          IN <<SubSeq(t, 1, e - 1)>> \o Split(SubSeq(t, e + 1, Len(t)))

\* the learnings a confirmation reply keeps (lines 1222-1231)
RECURSIVE FilterLearnings(_, _)
FilterLearnings(learnings, response_lower) ==
  IF learnings = <<>> THEN <<>>
  ELSE LET words == Split(Lower(Head(learnings)))
           first3 == SubSeq(words, 1, IF Len(words) < 3 THEN Len(words) ELSE 3)
           mentioned == \E i \in 1..Len(first3) : Contains(response_lower, first3[i])
       IN (IF mentioned THEN <<>> ELSE <<Head(learnings)>>)
          \o FilterLearnings(Tail(learnings), response_lower)

\* _handle_learning_confirmation up to its first blocking call (lines 1208-1245)
_handle_learning_confirmation(hr0, objs, ds) ==
  LET sid == Get(ds, hr0.thread_ts)
      hr == [hr0 EXCEPT !.sid = sid]
      response_lower == Strip(Lower(hr0.text))
      no == <<"n", "o">>
      except == <<"e", "x", "c", "e", "p", "t">>
  IN IF sid = 0 THEN Eff(Done(hr), objs)
     ELSE IF objs[sid].status # "learnings_pending" THEN Eff(Done(hr), objs)
     ELSE LET pending == objs[sid].pending_learnings
              learnings == IF Contains(response_lower, except) /\ pending # <<>>
                           THEN FilterLearnings(pending, response_lower)
                           ELSE pending
          IN IF response_lower = no \/ StartsWith(response_lower, no)
             THEN Eff(Waiting(hr, "say_no"), objs)
             ELSE IF learnings # <<>>
             THEN Eff([Waiting(hr, "feedback_create") EXCEPT
                         !.learnings = learnings,
                         !.original_content = objs[sid].drafts[1].content,
                         !.final_content =
                            objs[sid].drafts[Len(objs[sid].drafts)].content],
                      objs)
             ELSE Eff(Waiting(hr, "say_none"), objs)

\* _handle_revision_request up to its first blocking call (lines 1038-1046)
_handle_revision_request(hr0, objs, ds) ==
  LET sid == Get(ds, hr0.thread_ts)
      hr == [hr0 EXCEPT !.sid = sid]
  IN IF sid = 0 THEN Eff(Done(hr), objs)
     ELSE Eff(Waiting(hr, "detect_voice"), objs)

\* a seeded fault: a question counts as the approval of the draft
_handle_context_question_approves(hr, objs) ==
  Eff(Waiting(hr, "answer_question"), [objs EXCEPT ![hr.sid].status = "approved"])

\* _handle_context_question up to its first blocking call (lines 843-877)
_handle_context_question(hr, objs) ==
  Eff(Waiting(hr, "answer_question"), objs)

\* a seeded fault: every session that is not awaiting a confirmation is
\* treated as iterating
_handle_draft_reply_any_status(hr0, objs, ds) ==
  LET sid == Get(ds, hr0.thread_ts)
  IN IF sid = 0 THEN Eff(Done(hr0), objs)
     ELSE LET session == objs[sid]
              hr == [hr0 EXCEPT !.sid = sid, !.route = "none"]
          IN IF session.status = "learnings_pending"
             THEN _handle_learning_confirmation(
                    [hr EXCEPT !.route = "confirmation"], objs, ds)
             ELSE IF _is_approval_signal(hr.text)
             THEN _handle_approval([hr EXCEPT !.route = "approval"], objs, ds)
             ELSE Eff(Waiting(hr, "classify"), objs)

\* _handle_draft_reply up to its first blocking call (lines 776-804)
_handle_draft_reply(hr0, objs, ds) ==
  LET sid == Get(ds, hr0.thread_ts)
  IN IF sid = 0 THEN Eff(Done(hr0), objs)
     ELSE LET session == objs[sid]
              hr == [hr0 EXCEPT !.sid = sid, !.route = "none"]
          IN IF session.status = "iterating"
             THEN IF _is_approval_signal(hr.text)
                  THEN _handle_approval([hr EXCEPT !.route = "approval"], objs, ds)
                  ELSE Eff(Waiting(hr, "classify"), objs)
             ELSE IF session.status = "learnings_pending"
             THEN _handle_learning_confirmation(
                    [hr EXCEPT !.route = "confirmation"], objs, ds)
             ELSE Eff(Done(hr), objs)

(* ------------------------------ actions ------------------------------- *)
\* The actions take the world w they run in: whether events are handled one at
\* a time (w.serial), the root messages users reply under (w.roots), the texts
\* they send (w.texts), and what the classifier oracle (w.answers) and the
\* voice detection oracle (w.hints) can return.

\* worker thread h takes the next event; in a serial world, only when no event
\* is in flight
CanStart(h, w) ==
  /\ ~Busy(handlers[h])
  /\ \A k \in Slots : k < h => Busy(handlers[k])
  /\ w.serial => \A k \in Slots : ~Busy(handlers[k])

\* handler h's block of code has run
Apply(h, e) == Commit(e.objs, draft_sessions, [handlers EXCEPT ![h] = e.h])

\* the root messages a user can reply under
Threads == KnownTs \cup DOMAIN draft_sessions

\* TweetService.get_by_slack_message_ts: the rows with that message id
get_by_slack_message_ts(thread_ts) ==
  {tw \in monitored_tweets : tw.slack_message_ts = thread_ts}

\* handle_message_event for a threaded message (lines 130-163), up to the
\* first blocking call of the handler it runs
HandleThreadReply(h, w) ==
  /\ CanStart(h, w)
  /\ \E thread_ts \in Threads \cap w.roots, text \in w.texts, bot \in BOOLEAN :
       LET hr == [Idle EXCEPT !.event = "message", !.thread_ts = thread_ts,
                              !.text = text, !.route = "dropped"]
       IN IF bot \/ Strip(text) = <<>> \/ StartsWith(text, <<"!">>)
          THEN UNCHANGED <<draft_sessions, session_objs, handlers>>
          ELSE IF thread_ts \in DOMAIN draft_sessions
          THEN Apply(h, _handle_draft_reply(hr, session_objs, draft_sessions))
          ELSE Apply(h, Eff(Waiting(hr, "check_suggested"), session_objs))
  /\ UNCHANGED <<pending_confirmations, voice_feedback, now, next_ts, next_sid>>

\* a seeded fault: a session is made for a tweet without suggested content
CheckSuggestedReturns_any_tweet(h) ==
  LET hr == handlers[h]
      found == get_by_slack_message_ts(hr.thread_ts)
  IN /\ hr.pc = "check_suggested"
     /\ \E store_ok \in BOOLEAN :
          IF ~store_ok \/ found = {}
          THEN Apply(h, Eff(Done(hr), session_objs)) /\ UNCHANGED next_sid
          ELSE LET tweet == CHOOSE tw \in found : TRUE
               IN IF FALSE
                  THEN Apply(h, Eff(Done(hr), session_objs)) /\ UNCHANGED next_sid
                  ELSE LET pillar == IF tweet.relevance_type = "reply_opportunity"
                                     THEN "social_proof" ELSE "market_commentary"
                           session == NewSession(pillar, tweet.content,
                                                 tweet.account_handle,
                                                 tweet.suggested_content,
                                                 hr.thread_ts)
                           objs == Put(session_objs, next_sid, session)
                           ds == Put(draft_sessions, hr.thread_ts, next_sid)
                           e == _handle_draft_reply(hr, objs, ds)
                       IN /\ next_sid <= MaxSessions
                          /\ Commit(e.objs, ds, [handlers EXCEPT ![h] = e.h])
                          /\ next_sid' = next_sid + 1
     /\ UNCHANGED <<pending_confirmations, voice_feedback, now, next_ts>>

\* _check_suggested_tweet_thread returns (lines 739-774), then lines 157-163
CheckSuggestedReturns(h) ==
  LET hr == handlers[h]
      found == get_by_slack_message_ts(hr.thread_ts)
  IN /\ hr.pc = "check_suggested"
     /\ \E store_ok \in BOOLEAN :
          IF ~store_ok \/ found = {}
          THEN Apply(h, Eff(Done(hr), session_objs)) /\ UNCHANGED next_sid
          ELSE LET tweet == CHOOSE tw \in found : TRUE
               IN IF tweet.suggested_content = None
                  THEN Apply(h, Eff(Done(hr), session_objs)) /\ UNCHANGED next_sid
                  ELSE LET pillar == IF tweet.relevance_type = "reply_opportunity"
                                     THEN "social_proof" ELSE "market_commentary"
                           session == NewSession(pillar, tweet.content,
                                                 tweet.account_handle,
                                                 tweet.suggested_content,
                                                 hr.thread_ts)
                           objs == Put(session_objs, next_sid, session)
                           ds == Put(draft_sessions, hr.thread_ts, next_sid)
                           e == _handle_draft_reply(hr, objs, ds)
                       IN /\ next_sid <= MaxSessions
                          /\ Commit(e.objs, ds, [handlers EXCEPT ![h] = e.h])
                          /\ next_sid' = next_sid + 1
     /\ UNCHANGED <<pending_confirmations, voice_feedback, now, next_ts>>

\* what the classifier oracle call can end in
ClassifyOutcomes ==
  {[raised |-> FALSE, answer |-> a] : a \in ClassifierAnswers}
    \cup {[raised |-> TRUE, answer |-> NoText]}

\* _classify_draft_reply_intent returns, and the reply is routed (lines 791-798)
ClassifyReturns(h, w) ==
  /\ handlers[h].pc = "classify"
  /\ \E out \in w.answers :
       LET hr == [handlers[h] EXCEPT !.answer = out.answer, !.raised = out.raised]
           intent == _classify_draft_reply_intent(out.answer, out.raised)
       IN IF intent = "approval"
          THEN Apply(h, _handle_approval([hr EXCEPT !.route = "approval"],
                                         session_objs, draft_sessions))
          ELSE IF intent = "question"
          THEN Apply(h, _handle_context_question([hr EXCEPT !.route = "question"],
                                                 session_objs))
          ELSE Apply(h, _handle_revision_request([hr EXCEPT !.route = "revision"],
                                                 session_objs, draft_sessions))
  /\ UNCHANGED <<pending_confirmations, voice_feedback, now, next_ts, next_sid>>

\* the answer oracle of _handle_context_question returns (lines 873-891): its
\* answer is posted, or the apology of the except block when it raised
AnswerQuestionReturns(h) ==
  LET hr == Frame(handlers[h])
  IN /\ hr.pc = "answer_question"
     /\ \E raised \in BOOLEAN :
          IF raised THEN Apply(h, Eff(Waiting(hr, "say_sorry_question"), session_objs))
          ELSE Apply(h, Eff(Waiting(hr, "say_answer"), session_objs))
     /\ UNCHANGED <<pending_confirmations, voice_feedback, now, next_ts, next_sid>>

\* a post of _handle_context_question returns (lines 881-891): a failed post
\* of the answer goes to the apology; the apology ends the handler, whether
\* it went out or raised into _handle_draft_reply
QuestionSayReturns(h) ==
  LET hr == Frame(handlers[h])
  IN /\ hr.pc \in {"say_answer", "say_sorry_question"}
     /\ \E ok \in BOOLEAN :
          IF hr.pc = "say_answer" /\ ~ok
          THEN Apply(h, Eff(Waiting(hr, "say_sorry_question"), session_objs))
          ELSE Apply(h, Eff(Done(hr), session_objs))
     /\ UNCHANGED <<pending_confirmations, voice_feedback, now, next_ts, next_sid>>

\* what the best-guess oracle call of _find_voice_reference can end in
GuessOutcomes ==
  {[raised |-> FALSE, answer |-> a] : a \in MatchAnswers}
    \cup {[raised |-> TRUE, answer |-> NoText]}

\* a seeded fault: when no voice reference resolves, the request is revised
\* without a voice
DetectVoiceReturns_falls_back(h, w) ==
  LET hr == [Frame(handlers[h]) EXCEPT !.text = handlers[h].text]
      session == session_objs[hr.sid]
  IN /\ hr.pc = "detect_voice"
     /\ \E hint \in w.hints :
          IF hint = NoText
          THEN Apply(h, Eff([Waiting(hr, "revise") EXCEPT
                               !.messages = _build_revision_messages(session, hr.text)],
                            session_objs))
          ELSE \E store_ok \in BOOLEAN, guess \in GuessOutcomes :
                 LET acc == _find_voice_reference(hint, store_ok, guess)
                 IN IF acc = 0
                    THEN Apply(h, Eff([Waiting(hr, "revise") EXCEPT
                                         !.voice_hint = hint,
                                         !.messages = _build_revision_messages(session, hr.text)],
                                      session_objs))
                    ELSE IF voice_accounts[acc].samples = <<>>
                    THEN Apply(h, Eff([Waiting(Frame(hr), "say_no_samples") EXCEPT
                                         !.voice_hint = hint], session_objs))
                    ELSE Apply(h, Eff([Waiting(hr, "revise") EXCEPT
                                         !.voice_hint = hint,
                                         !.voice_handle = voice_accounts[acc].twitter_handle,
                                         !.voice_samples = voice_accounts[acc].samples,
                                         !.current_content =
                                            session.drafts[Len(session.drafts)].content],
                                      session_objs))
     /\ UNCHANGED <<pending_confirmations, voice_feedback, now, next_ts, next_sid>>

\* _detect_voice_request and _find_voice_reference return (lines 1046-1061,
\* 1087-1101)
DetectVoiceReturns(h, w) ==
  LET hr == [Frame(handlers[h]) EXCEPT !.text = handlers[h].text]
      session == session_objs[hr.sid]
  IN /\ hr.pc = "detect_voice"
     /\ \E hint \in w.hints :
          IF hint = NoText
          THEN Apply(h, Eff([Waiting(hr, "revise") EXCEPT
                               !.messages = _build_revision_messages(session, hr.text)],
                            session_objs))
          ELSE \E store_ok \in BOOLEAN, guess \in GuessOutcomes :
                 LET acc == _find_voice_reference(hint, store_ok, guess)
                 IN IF acc = 0
                    THEN Apply(h, Eff([Waiting(Frame(hr), "say_no_match") EXCEPT
                                         !.voice_hint = hint], session_objs))
                    ELSE IF voice_accounts[acc].samples = <<>>
                    THEN Apply(h, Eff([Waiting(Frame(hr), "say_no_samples") EXCEPT
                                         !.voice_hint = hint], session_objs))
                    ELSE Apply(h, Eff([Waiting(hr, "revise") EXCEPT
                                         !.voice_hint = hint,
                                         !.voice_handle = voice_accounts[acc].twitter_handle,
                                         !.voice_samples = voice_accounts[acc].samples,
                                         !.current_content =
                                            session.drafts[Len(session.drafts)].content],
                                      session_objs))
     /\ UNCHANGED <<pending_confirmations, voice_feedback, now, next_ts, next_sid>>

\* the post that tells the user no voice was found, or no samples, returns
\* (lines 1087-1098, 1125-1130)
VoiceSayReturns(h) ==
  LET hr == Frame(handlers[h])
  IN /\ hr.pc \in {"say_no_match", "say_no_samples"}
     /\ \E ok \in BOOLEAN :
          IF ok THEN Apply(h, Eff(Done(hr), session_objs))
          ELSE Apply(h, Eff(Waiting(hr, "say_sorry"), session_objs))
     /\ UNCHANGED <<pending_confirmations, voice_feedback, now, next_ts, next_sid>>

\* revise_content or revise_with_voice returns (lines 1063-1070, 1104-1109,
\* 1125-1130)
ReviseReturns(h) ==
  LET hr == [Frame(handlers[h]) EXCEPT !.text = handlers[h].text,
                                       !.voice_handle = handlers[h].voice_handle]
  IN /\ hr.pc = "revise"
     /\ \E out \in RevisedContents \cup {"raise"} :
          IF out = "raise"
          THEN Apply(h, Eff(Waiting(Frame(hr), "say_sorry"), session_objs))
          ELSE Apply(h, Eff([Waiting(hr, "say_revision") EXCEPT
                               !.revised_content = out,
                               !.version = Len(session_objs[hr.sid].drafts)],
                            session_objs))
     /\ UNCHANGED <<pending_confirmations, voice_feedback, now, next_ts, next_sid>>

\* a seeded fault: the draft does not record the voice it was styled after
NewDraft_no_voice(hr, ts) ==
  [version |-> hr.version, content |-> hr.revised_content,
   revision_request |-> hr.text, voice_reference |-> NoText,
   message_ts |-> ts]

\* a seeded fault: versions are counted from 1
NewDraft_from_one(hr, ts) ==
  [version |-> hr.version + 1, content |-> hr.revised_content,
   revision_request |-> hr.text, voice_reference |-> hr.voice_handle,
   message_ts |-> ts]

\* the draft a revision stores (lines 1079-1085 and 1118-1123)
NewDraft(hr, ts) ==
  [version |-> hr.version, content |-> hr.revised_content,
   revision_request |-> hr.text, voice_reference |-> hr.voice_handle,
   message_ts |-> ts]

\* a seeded fault: the draft is stored before it is posted
PostRevisionReturns_store_first(h) ==
  LET hr == handlers[h]
      stored == [session_objs EXCEPT ![hr.sid].drafts =
                   Append(@, [version |-> hr.version, content |-> hr.revised_content,
                              revision_request |-> hr.text,
                              voice_reference |-> hr.voice_handle,
                              message_ts |-> NoTs])]
  IN /\ hr.pc = "say_revision"
     /\ \E ok \in BOOLEAN :
          IF ok
          THEN /\ next_ts <= MaxTs
               /\ Apply(h, Eff(Done(hr),
                               [session_objs EXCEPT ![hr.sid].drafts =
                                  Append(@, [version |-> hr.version,
                                             content |-> hr.revised_content,
                                             revision_request |-> hr.text,
                                             voice_reference |-> hr.voice_handle,
                                             message_ts |-> next_ts])]))
               /\ next_ts' = next_ts + 1
          ELSE /\ Apply(h, Eff([Waiting(Frame(hr), "say_sorry") EXCEPT
                                  !.revised_content = hr.revised_content], stored))
               /\ UNCHANGED next_ts
     /\ UNCHANGED <<pending_confirmations, voice_feedback, now, next_sid>>

\* the post of the revision returns (lines 1073-1086, 1112-1130); the except
\* block that follows a failed post still has the draft it could not post
PostRevisionReturns(h) ==
  LET hr == handlers[h]
  IN /\ hr.pc = "say_revision"
     /\ \E ok \in BOOLEAN :
          IF ok
          THEN /\ next_ts <= MaxTs
               /\ Apply(h, Eff(Done(hr),
                               [session_objs EXCEPT ![hr.sid].drafts =
                                  Append(@, NewDraft(hr, next_ts))]))
               /\ next_ts' = next_ts + 1
          ELSE /\ Apply(h, Eff([Waiting(Frame(hr), "say_sorry") EXCEPT
                                  !.revised_content = hr.revised_content],
                               session_objs))
               /\ UNCHANGED next_ts
     /\ UNCHANGED <<pending_confirmations, voice_feedback, now, next_sid>>

\* the apology of the except block is posted (lines 1125-1130): the handler
\* returns, whether the post went out or raised into _handle_draft_reply
SorryReturns(h) ==
  /\ handlers[h].pc = "say_sorry"
  /\ Apply(h, Eff(Done(handlers[h]), session_objs))
  /\ UNCHANGED <<pending_confirmations, voice_feedback, now, next_ts, next_sid>>

(* ------------------- top-level messages: the intents ------------------- *)
\* d.pop(k): the dictionary without the key
Pop(d, k) == [x \in (DOMAIN d) \ {k} |-> d[x]]

\* the entry the code stores in pending_confirmations (lines 245-249)
PendingEntry(intent, entities) ==
  [intent |-> intent, entities |-> entities, awaiting |-> "clarification"]

\* the merge of lines 287-290: a new value replaces the old one when it is
\* not empty
MergeEntities(old, new) ==
  [k \in EntityKeys |-> IF new[k] # None THEN new[k] ELSE old[k]]

\* a top-level handler goes on past a blocking call with its user and the
\* intent it carries
FrameNL(hr) ==
  [Idle EXCEPT !.pc = hr.pc, !.event = hr.event, !.route = hr.route,
               !.user = hr.user, !.intent = hr.intent, !.entities = hr.entities]

\* a seeded fault: the intent executed is the one parsed from the answer
_execute_intent_of_answer(hr0, intent, entities) ==
  LET hr == [hr0 EXCEPT !.intent = hr0.parsed.intent, !.entities = entities]
  IN IF hr.intent = "add_monitor"
     THEN IF entities["handle"] = None \/ entities["category"] = None
          THEN Waiting(hr, "say_missing")
          ELSE Waiting(hr, "run_intent")
     ELSE IF hr.intent = "list_voices" THEN Waiting(hr, "run_intent")
     ELSE Done(hr)

\* _execute_intent up to its first blocking call (lines 305-431): a missing
\* entity is asked for, a complete intent is run, an unknown one is passed over
_execute_intent(hr0, intent, entities) ==
  LET hr == [hr0 EXCEPT !.intent = intent, !.entities = entities]
  IN IF intent = "add_monitor"
     THEN IF entities["handle"] = None \/ entities["category"] = None
          THEN Waiting(hr, "say_missing")
          ELSE Waiting(hr, "run_intent")
     ELSE IF intent = "list_voices" THEN Waiting(hr, "run_intent")
     ELSE Done(hr)

\* _handle_confirmation_response up to its first blocking call (lines
\* 267-284), the entry already popped
_handle_confirmation_response(hr, pending) ==
  LET text_lower == Strip(Lower(hr.text))
  IN IF pending = NoPending THEN Done(hr)
     ELSE IF InList(text_lower, cancel_words) THEN Waiting(FrameNL(hr), "say_cancelled")
     ELSE IF pending.awaiting = "clarification"
     THEN [Waiting(FrameNL(hr), "reparse") EXCEPT !.pending = pending]
     ELSE Done(hr)

\* handle_message_event for a message outside a thread (line 166), and
\* _handle_natural_language up to its first blocking call (lines 224-239)
HandleTopLevel(h, w) ==
  /\ CanStart(h, w)
  /\ \E user \in w.users, text \in w.toplevel :
       LET hr == [Idle EXCEPT !.event = "toplevel", !.user = user, !.text = text]
       IN IF user \in DOMAIN pending_confirmations
          THEN /\ pending_confirmations' = Pop(pending_confirmations, user)
               /\ handlers' = [handlers EXCEPT ![h] =
                    _handle_confirmation_response(
                      [hr EXCEPT !.route = "confirmation_response"],
                      pending_confirmations[user])]
          ELSE /\ UNCHANGED pending_confirmations
               /\ handlers' = [handlers EXCEPT ![h] =
                    [Waiting(FrameNL(hr), "parse") EXCEPT
                       !.route = "natural_language"]]
  /\ UNCHANGED <<draft_sessions, session_objs, voice_feedback, now, next_ts,
                 next_sid>>

\* intent_parser.parse returns to _handle_natural_language (lines 239-262)
ParseReturns(h, w) ==
  LET hr == FrameNL(handlers[h])
  IN /\ hr.pc = "parse"
     /\ \E result \in w.parses :
          LET got == [hr EXCEPT !.parsed = result]
          IN handlers' = [handlers EXCEPT ![h] =
               IF result.clarification_needed # None
               THEN [Waiting(got, "say_clarify") EXCEPT
                       !.intent = result.intent, !.entities = result.entities]
               ELSE IF result.confidence < 50 THEN Done(got)
               ELSE _execute_intent(got, result.intent, result.entities)]
     /\ UNCHANGED <<draft_sessions, session_objs, pending_confirmations,
                    voice_feedback, now, next_ts, next_sid>>

\* intent_parser.parse returns to _handle_confirmation_response (lines
\* 284-303)
ReparseReturns(h, w) ==
  LET pending == handlers[h].pending
      hr == FrameNL(handlers[h])
  IN /\ hr.pc = "reparse"
     /\ \E new_result \in w.parses :
          LET got == [hr EXCEPT !.parsed = new_result]
              merged_entities == MergeEntities(pending.entities, new_result.entities)
          IN handlers' = [handlers EXCEPT ![h] =
               IF new_result.clarification_needed # None
               THEN [Waiting(got, "say_reclarify") EXCEPT
                       !.intent = pending.intent, !.entities = merged_entities]
               ELSE _execute_intent(got, pending.intent, merged_entities)]
     /\ UNCHANGED <<draft_sessions, session_objs, pending_confirmations,
                    voice_feedback, now, next_ts, next_sid>>

\* the post of a question returns (lines 243-250, 293-300, 311-320): the
\* entry is stored after the post; a post that raises leaves through the
\* except blocks and stores nothing
AskSayReturns(h) ==
  LET hr == FrameNL(handlers[h])
  IN /\ hr.pc \in {"say_clarify", "say_reclarify", "say_missing"}
     /\ \E ok \in BOOLEAN :
          /\ handlers' = [handlers EXCEPT ![h] = Done(hr)]
          /\ pending_confirmations' =
               IF ok THEN Put(pending_confirmations, hr.user,
                              PendingEntry(hr.intent, hr.entities))
               ELSE pending_confirmations
     /\ UNCHANGED <<draft_sessions, session_objs, voice_feedback, now, next_ts,
                    next_sid>>

\* the command of a complete intent returns, or the post that confirms a
\* cancellation (lines 276-277, 321-427)
RunIntentReturns(h) ==
  /\ handlers[h].pc \in {"run_intent", "say_cancelled"}
  /\ handlers' = [handlers EXCEPT ![h] = Done(handlers[h])]
  /\ UNCHANGED <<draft_sessions, session_objs, pending_confirmations,
                 voice_feedback, now, next_ts, next_sid>>

\* a blocking call of a top-level handler returns
StepNL(h, w) ==
  \/ ParseReturns(h, w)
  \/ ReparseReturns(h, w)
  \/ AskSayReturns(h)
  \/ RunIntentReturns(h)

\* what the extract_learnings call can end in
ExtractOutcomes ==
  {[raised |-> FALSE, learnings |-> l] : l \in LearningsResults}
    \cup {[raised |-> TRUE, learnings |-> <<>>]}

\* extract_learnings returns (lines 1184-1203)
ExtractLearningsReturns(h) ==
  LET hr == Frame(handlers[h])
  IN /\ hr.pc = "extract_learnings"
     /\ \E out \in ExtractOutcomes :
          IF ~out.raised /\ out.learnings # <<>>
          THEN Apply(h, Eff(Waiting(hr, "say_confirm"),
                            [session_objs EXCEPT
                               ![hr.sid].pending_learnings = out.learnings,
                               ![hr.sid].status = "learnings_pending"]))
          ELSE Apply(h, Eff(Waiting(hr, "say_locked"), session_objs))
     /\ UNCHANGED <<pending_confirmations, voice_feedback, now, next_ts, next_sid>>

\* a post of _handle_approval returns (lines 1196-1206)
ApprovalSayReturns(h) ==
  LET hr == Frame(handlers[h])
  IN /\ hr.pc \in {"say_confirm", "say_locked"}
     /\ \E ok \in BOOLEAN :
          IF hr.pc = "say_confirm"
          THEN IF ok THEN Apply(h, Eff(Done(hr), session_objs))
               ELSE Apply(h, Eff(Waiting(hr, "say_locked"), session_objs))
          ELSE IF ok
          THEN Apply(h, Eff(Done(hr),
                            [session_objs EXCEPT ![hr.sid].status = "complete"]))
          ELSE Apply(h, Eff(Done(hr), session_objs))
     /\ UNCHANGED <<pending_confirmations, voice_feedback, now, next_ts, next_sid>>

\* a seeded fault: the row records the final content as the original
FeedbackRow_final_only(pillar, original_content, final_content, learnings, slack_thread_ts) ==
  [pillar |-> pillar, original_content |-> final_content,
   final_content |-> final_content, learnings |-> learnings,
   slack_thread_ts |-> slack_thread_ts]

\* the row FeedbackService.create inserts (feedback_service.py lines 40-54)
FeedbackRow(pillar, original_content, final_content, learnings, slack_thread_ts) ==
  [pillar |-> pillar, original_content |-> original_content,
   final_content |-> final_content, learnings |-> learnings,
   slack_thread_ts |-> slack_thread_ts]

\* a seeded fault: a failed store ends the handler without a word
FeedbackCreateReturns_silent(h) ==
  LET hr == Frame(handlers[h])
      row == FeedbackRow(session_objs[hr.sid].pillar, handlers[h].original_content,
                         handlers[h].final_content, handlers[h].learnings,
                         hr.thread_ts)
  IN /\ hr.pc = "feedback_create"
     /\ \E ok \in BOOLEAN :
          IF ok
          THEN /\ Len(voice_feedback) < MaxFeedback
               /\ voice_feedback' = Append(voice_feedback, row)
               /\ Apply(h, Eff(Waiting(hr, "say_saved"), session_objs))
          ELSE /\ UNCHANGED voice_feedback
               /\ Apply(h, Eff(Done(hr), session_objs))
     /\ UNCHANGED <<pending_confirmations, now, next_ts, next_sid>>

\* feedback_service.create returns (lines 1239-1256)
FeedbackCreateReturns(h) ==
  LET hr == Frame(handlers[h])
      row == FeedbackRow(session_objs[hr.sid].pillar, handlers[h].original_content,
                         handlers[h].final_content, handlers[h].learnings,
                         hr.thread_ts)
  IN /\ hr.pc = "feedback_create"
     /\ \E ok \in BOOLEAN :
          IF ok
          THEN /\ Len(voice_feedback) < MaxFeedback
               /\ voice_feedback' = Append(voice_feedback, row)
               /\ Apply(h, Eff(Waiting(hr, "say_saved"), session_objs))
          ELSE /\ UNCHANGED voice_feedback
               /\ Apply(h, Eff(Waiting(hr, "say_couldnt"), session_objs))
     /\ UNCHANGED <<pending_confirmations, now, next_ts, next_sid>>

\* a post of _handle_learning_confirmation returns (lines 1218-1220,
\* 1250-1260); a post that raises outside the try block leaves the handler
\* through the except block of _handle_draft_reply
ConfirmationSayReturns(h) ==
  LET hr == Frame(handlers[h])
  IN /\ hr.pc \in {"say_no", "say_saved", "say_couldnt", "say_none"}
     /\ \E ok \in BOOLEAN :
          IF ok
          THEN Apply(h, Eff(Done(hr),
                            [session_objs EXCEPT ![hr.sid].status = "complete"]))
          ELSE IF hr.pc = "say_saved"
          THEN Apply(h, Eff(Waiting(hr, "say_couldnt"), session_objs))
          ELSE Apply(h, Eff([Done(hr) EXCEPT !.raised = TRUE], session_objs))
     /\ UNCHANGED <<pending_confirmations, voice_feedback, now, next_ts, next_sid>>

\* a seeded fault: a reaction on any draft of the session counts
ReactionTargets_any_draft(reacted_ts) ==
  {t \in DOMAIN draft_sessions :
     LET session == session_objs[draft_sessions[t]]
     IN /\ session.status = "iterating"
        /\ \/ \E i \in 1..Len(session.drafts) :
                session.drafts[i].message_ts = reacted_ts
           \/ t = reacted_ts}

\* the sessions handle_reaction's loop stops at (lines 185-191)
ReactionTargets(reacted_ts) ==
  {t \in DOMAIN draft_sessions :
     LET session == session_objs[draft_sessions[t]]
     IN /\ session.status = "iterating"
        /\ session.drafts # <<>>
        /\ \/ session.drafts[Len(session.drafts)].message_ts = reacted_ts
           \/ t = reacted_ts}

\* handle_reaction (lines 168-193), up to _handle_approval's first blocking call
HandleReaction(h, w) ==
  /\ CanStart(h, w)
  /\ \E reaction \in {"white_check_mark", "thumbsup", "eyes"},
        reacted_ts \in 1..(next_ts - 1) :
       LET hr == [Idle EXCEPT !.event = "reaction", !.reacted_ts = reacted_ts]
       IN IF reaction \notin approval_reactions
          THEN UNCHANGED <<draft_sessions, session_objs, handlers>>
          ELSE IF ReactionTargets(reacted_ts) = {}
          THEN Apply(h, Eff(Done(hr), session_objs))
          ELSE \E t \in ReactionTargets(reacted_ts) :
                 Apply(h, _handle_approval([hr EXCEPT !.thread_ts = t,
                                                      !.route = "approval"],
                                           session_objs, draft_sessions))
  /\ UNCHANGED <<pending_confirmations, voice_feedback, now, next_ts, next_sid>>

\* _generate_post (lines 644-711): the post is generated and sent, its session
\* stored and the old sessions swept
_generate_post(w) ==
  /\ w.serial => \A k \in Slots : ~Busy(handlers[k])
  /\ \E pillar \in {"market_commentary", "bogus"},
        out \in {"ok", "oracle_failed", "post_failed"} :
       IF pillar \in valid_pillars /\ out = "ok"
       THEN LET thread_ts == next_ts
                session == NewSession(pillar, None, None, "G1", thread_ts)
                objs == Put(session_objs, next_sid, session)
                ds == Put(draft_sessions, thread_ts, next_sid)
            IN /\ next_ts <= MaxTs
               /\ next_sid <= MaxSessions
               /\ Commit(objs, _cleanup_old_sessions(ds, objs, now), handlers)
               /\ next_ts' = next_ts + 1
               /\ next_sid' = next_sid + 1
       ELSE UNCHANGED <<draft_sessions, session_objs, handlers, next_ts, next_sid>>
  /\ UNCHANGED <<pending_confirmations, voice_feedback, now>>

\* time passes: the maximum age of a session exactly, or more
Tick ==
  /\ now + TickHours <= MaxTicks * TickHours
  /\ \E hours \in {SESSION_MAX_AGE, TickHours} : now' = now + hours
  /\ UNCHANGED <<draft_sessions, session_objs, handlers, pending_confirmations,
                 voice_feedback,                 next_ts, next_sid>>

\* a blocking call of handler h returns
Step(h, w) ==
  \/ CheckSuggestedReturns(h)
  \/ ClassifyReturns(h, w)
  \/ AnswerQuestionReturns(h)
  \/ QuestionSayReturns(h)
  \/ DetectVoiceReturns(h, w)
  \/ VoiceSayReturns(h)
  \/ ReviseReturns(h)
  \/ PostRevisionReturns(h)
  \/ SorryReturns(h)
  \/ ExtractLearningsReturns(h)
  \/ ApprovalSayReturns(h)
  \/ FeedbackCreateReturns(h)
  \/ ConfirmationSayReturns(h)

\* every event and every oracle outcome, up to two events in flight together
World ==
  [serial |-> FALSE, roots |-> 1..MaxTs, texts |-> ReplyTexts \cup IgnoredTexts,
   answers |-> ClassifyOutcomes, hints |-> VoiceHints,
   users |-> Users, toplevel |-> TopLevelTexts, parses |-> ParsedIntents]

Next ==
  \/ \E h \in Slots : HandleThreadReply(h, World)
  \/ \E h \in Slots : HandleReaction(h, World)
  \/ _generate_post(World)
  \/ Tick
  \/ \E h \in Slots : Step(h, World)
  \/ \E h \in Slots : HandleTopLevel(h, World)
  \/ \E h \in Slots : StepNL(h, World)

\* the program
Spec == Init /\ [][Next]_vars

\* the same, its events handled one at a time
WorldSerial == [World EXCEPT !.serial = TRUE]

NextSerial ==
  \/ \E h \in Slots : HandleThreadReply(h, WorldSerial)
  \/ \E h \in Slots : HandleReaction(h, WorldSerial)
  \/ _generate_post(WorldSerial)
  \/ Tick
  \/ \E h \in Slots : Step(h, WorldSerial)

SpecSerial == Init /\ [][NextSerial]_vars

\* one thread, that of the suggested reply, with up to two of its events in
\* flight together: an approval, a revision request and a confirmation, the
\* classifier answering within its three labels, no voice reference found
WorldThread ==
  [serial |-> FALSE,
   roots |-> {tw.slack_message_ts : tw \in {x \in monitored_tweets :
                                              x.suggested_content # None}},
   texts |-> {ThreadTexts[i] : i \in 1..Len(ThreadTexts)},
   answers |-> {out \in ClassifyOutcomes :
                  InList(Lower(Strip(out.answer)), valid_intents)},
   hints |-> {NoText, ThreadHint}]

NextThread ==
  \/ \E h \in Slots : HandleThreadReply(h, WorldThread)
  \/ \E h \in Slots : HandleReaction(h, WorldThread)
  \/ \E h \in Slots : Step(h, WorldThread)

SpecThread == Init /\ [][NextThread]_vars

\* the top-level messages alone, up to two in flight together: commands in
\* natural language, the questions the bot asks back and their answers; the
\* parser asks back only when it found no entity
WorldNL ==
  [World EXCEPT !.parses =
     {p \in ParsedIntents :
        p.clarification_needed # None => p.entities = NoEntities}]

NextNL ==
  \/ \E h \in Slots : HandleTopLevel(h, WorldNL)
  \/ \E h \in Slots : StepNL(h, WorldNL)

SpecNL == Init /\ [][NextNL]_vars

(* ------------------------------ properties ---------------------------- *)
\* the sessions of the store
Stored == {draft_sessions[t] : t \in DOMAIN draft_sessions}

\* the order of the statuses
Rank(status) ==
  CASE status = "iterating" -> 0
    [] status = "approved" -> 1
    [] status = "learnings_pending" -> 2
    [] status = "complete" -> 3

\* the session objects that exist before and after a step
Kept == (DOMAIN session_objs) \cap (DOMAIN session_objs')

\* worker thread h takes an event in this step
Takes(h) == ~Busy(handlers[h]) /\ handlers'[h] # handlers[h]

\* C1: with events handled one at a time, every session of the store has at
\* least one draft, and the draft at index i (counted from 0) has version i.
C1_VersionIsIndex ==
  \A s \in Stored :
    LET drafts == session_objs[s].drafts
    IN /\ drafts # <<>>
       /\ \A i \in 1..Len(drafts) : drafts[i].version = i - 1

\* C1's case: a session has grown to three drafts, one of them voice-styled
C1_Witness ==
  \E s \in Stored :
    LET drafts == session_objs[s].drafts
    IN /\ Len(drafts) >= 3
       /\ \E i \in 1..Len(drafts) : drafts[i].voice_reference # NoText

\* C2: the status of a session object never moves backward in the order
\* iterating, approved, learnings_pending, complete, whatever events are in
\* flight together.
C2_StatusMovesForward ==
  [][\A s \in Kept :
       Rank(session_objs'[s].status) >= Rank(session_objs[s].status)]_vars

\* C2's case: a session that is complete and went through learnings_pending
C2_Witness ==
  \E s \in Stored :
    /\ session_objs[s].status = "complete"
    /\ session_objs[s].pending_learnings # <<>>

\* C3: a session in learnings_pending becomes complete only in a step of a
\* handler that processes a confirmation reply in its thread.
C3_CompleteOnlyByConfirmation ==
  [][\A s \in Kept :
       (/\ session_objs[s].status = "learnings_pending"
        /\ session_objs'[s].status = "complete")
       => \E h \in Slots : /\ handlers[h].route = "confirmation"
                           /\ handlers[h].sid = s
                           /\ handlers'[h] # handlers[h]]_vars

\* C4: a session enters learnings_pending only from approved, with more than
\* one draft, in the step in which extract_learnings returns a non-empty list;
\* the confirmation question is posted only then; and an approved session
\* whose approval found one draft or extracted nothing moves to no other
\* status than complete.
C4_LearningsPendingOnlyAfterExtraction ==
  [][/\ \A s \in Kept :
          (/\ session_objs[s].status # "learnings_pending"
           /\ session_objs'[s].status = "learnings_pending")
          => /\ session_objs[s].status = "approved"
             /\ Len(session_objs[s].drafts) > 1
             /\ session_objs'[s].pending_learnings # <<>>
             /\ \E h \in Slots : /\ handlers[h].pc = "extract_learnings"
                                 /\ handlers[h].sid = s
                                 /\ handlers'[h].pc = "say_confirm"
     /\ \A h \in Slots :
          (handlers'[h].pc = "say_confirm" /\ handlers[h].pc # "say_confirm")
          => /\ handlers[h].pc = "extract_learnings"
             /\ session_objs'[handlers[h].sid].status = "learnings_pending"
     /\ \A h \in Slots :
          (/\ handlers[h].route = "approval"
           /\ handlers'[h].pc = "say_locked"
           /\ handlers[h].pc \notin {"say_locked", "say_confirm"})
          => /\ session_objs'[handlers'[h].sid].status = "approved"
             /\ session_objs'[handlers'[h].sid].pending_learnings
                  = session_objs[handlers'[h].sid].pending_learnings
     /\ \A s \in Kept :
          (/\ session_objs[s].status = "approved"
           /\ session_objs'[s].status # "approved")
          => session_objs'[s].status \in {"learnings_pending", "complete"}]_vars

\* C4's case: an approval of a session with several drafts extracted nothing
\* and the session is complete with no learnings pending
C4_Witness ==
  \E s \in Stored :
    /\ session_objs[s].status = "complete"
    /\ Len(session_objs[s].drafts) > 1
    /\ session_objs[s].pending_learnings = <<>>

\* a session whose age is over the maximum
Expired(session) == now - session.created_at > SESSION_MAX_AGE

\* C5: the step in which a worker thread takes a thread reply or an approval
\* reaction addressed to a session older than 24 hours changes neither the
\* status nor the drafts of that session.
C5_ExpiredSessionTakesNoEvent ==
  [][\A h \in Slots :
       (Takes(h) /\ handlers'[h].thread_ts \in DOMAIN draft_sessions)
       => LET s == draft_sessions[handlers'[h].thread_ts]
          IN Expired(session_objs[s])
             => /\ s \in DOMAIN session_objs'
                /\ session_objs'[s].status = session_objs[s].status
                /\ session_objs'[s].drafts = session_objs[s].drafts]_vars

\* C6: the drafts of a session have distinct versions, also when two revision
\* requests of its thread are in flight together.
C6_VersionsDistinct ==
  \A s \in DOMAIN session_objs :
    LET drafts == session_objs[s].drafts
    IN \A i, j \in 1..Len(drafts) : i # j => drafts[i].version # drafts[j].version

\* C7: with events handled one at a time, a revision handler changes no
\* session before its draft is posted, a raise of the revision oracle or of
\* the post takes it to the apology, and the session is then iterating and
\* as it was, without the draft.
C7_FailedRevisionChangesNothing ==
  [][\A h \in Slots :
       LET a == handlers[h]
           b == handlers'[h]
       IN (a.route = "revision" /\ Busy(a) /\ b # a)
          => \/ /\ a.pc = "say_revision"
                /\ b.pc = "done"
                /\ Len(session_objs'[a.sid].drafts) = Len(session_objs[a.sid].drafts) + 1
             \/ /\ UNCHANGED <<draft_sessions, session_objs>>
                /\ session_objs[a.sid].status = "iterating"
                /\ a.pc = "revise" => b.pc \in {"say_revision", "say_sorry"}
                /\ a.pc = "say_revision" => b.pc = "say_sorry"]_vars

\* C7's case: the post of a revised draft has failed and the apology is being
\* posted; the session has its drafts of before
C7_Witness ==
  \E h \in Slots :
    /\ handlers[h].pc = "say_sorry"
    /\ handlers[h].revised_content # None
    /\ Len(session_objs[handlers[h].sid].drafts) = 2

\* the message ids of a session: its thread root and its drafts' posts
MessagesOf(t) ==
  {t} \cup {session_objs[draft_sessions[t]].drafts[i].message_ts :
              i \in 1..Len(session_objs[draft_sessions[t]].drafts)}

\* C8: a thread reply to a complete session, and an approval reaction on one
\* of its messages, returns at once: no session changes, no feedback row is
\* written and nothing is posted.
C8_CompleteSessionIgnoresEvents ==
  [][\A h \in Slots :
       LET b == handlers'[h]
           complete == {t \in DOMAIN draft_sessions :
                          session_objs[draft_sessions[t]].status = "complete"}
       IN (/\ Takes(h)
           /\ \/ b.event = "message" /\ b.thread_ts \in complete
              \/ b.event = "reaction"
                   /\ \E t \in complete : b.reacted_ts \in MessagesOf(t))
          => /\ b.pc = "done"
             /\ UNCHANGED <<draft_sessions, session_objs, voice_feedback, next_ts>>]_vars

\* C8's case: a reply to a complete session has been handled and routed nowhere
C8_Witness ==
  \E h \in Slots :
    /\ handlers[h].pc = "done"
    /\ handlers[h].event = "message"
    /\ handlers[h].route = "none"
    /\ handlers[h].thread_ts \in DOMAIN draft_sessions
    /\ session_objs[draft_sessions[handlers[h].thread_ts]].status = "complete"
    /\ Len(session_objs[draft_sessions[handlers[h].thread_ts]].drafts) > 1

\* the affirmations of the fast path
Affirmations ==
  << <<"g", "o", "o", "d">>, <<"n", "i", "c", "e">>, <<"y", "e", "s">>, <<"y", "e", "p">>, <<"o", "k">>, <<"o", "k", "a", "y">>, <<"U1F44D">>, <<"U2705">> >>

\* the trimmed, lower-cased text is an affirmation or holds an approval phrase
FastPath(text) ==
  LET t == Strip(Lower(text))
  IN \/ \E i \in 1..Len(Affirmations) : t = Affirmations[i]
     \/ \E i \in 1..Len(approval_phrases) : Contains(t, approval_phrases[i])

\* C9: a thread reply with a fast-path text, dispatched to an iterating
\* session, is routed to the approval and never waits in the classifier call.
C9_FastPathSkipsClassifier ==
  [][\A h \in Slots :
       LET a == handlers[h]
           b == handlers'[h]
       IN (/\ b # a
           /\ b.event = "message"
           /\ a.pc \in {"idle", "done", "check_suggested"}
           /\ b.pc # "check_suggested"
           /\ FastPath(b.text))
          => /\ b.pc # "classify"
             /\ (\/ a.pc = "check_suggested"
                 \/ session_objs[draft_sessions[b.thread_ts]].status = "iterating")
                => b.route = "approval" /\ b.pc \in {"extract_learnings", "say_locked"}]_vars

\* C9's case: a reply that is an approval only once trimmed and lower-cased
\* is in the approval handler
C9_Witness ==
  \E h \in Slots :
    /\ handlers[h].route = "approval"
    /\ handlers[h].pc \in {"extract_learnings", "say_locked"}
    /\ FastPath(handlers[h].text)
    /\ Strip(Lower(handlers[h].text)) # handlers[h].text

\* the three labels of the classifier
Labels == << <<"a", "p", "p", "r", "o", "v", "a", "l">>, <<"q", "u", "e", "s", "t", "i", "o", "n">>, <<"r", "e", "v", "i", "s", "i", "o", "n">> >>

\* C10: when the classifier call raises, or its answer, trimmed and
\* lower-cased, is none of the three labels, the reply goes to the revision
\* handler.
C10_UnknownAnswerIsRevision ==
  [][\A h \in Slots :
       LET b == handlers'[h]
       IN (/\ handlers[h].pc = "classify"
           /\ b # handlers[h]
           /\ \/ b.raised
              \/ \A i \in 1..Len(Labels) : Strip(Lower(b.answer)) # Labels[i])
          => b.route = "revision" /\ b.pc = "detect_voice"]_vars

\* C10's case: the classifier answered outside its labels and the revision
\* handler runs
C10_Witness ==
  \E h \in Slots :
    /\ handlers[h].pc = "detect_voice"
    /\ ~handlers[h].raised
    /\ handlers[h].answer # NoText
    /\ \A i \in 1..Len(Labels) : Strip(Lower(handlers[h].answer)) # Labels[i]

\* C11: a step that changes the drafts of a session is the successful post of
\* a revision: it appends one draft at the end, whose version is the length
\* the list had and whose revision_request is the instruction of the reply,
\* and leaves the drafts that were there as they were, in place; no step
\* shortens the list.
C11_RevisionAppendsOneDraft ==
  [][\A s \in Kept :
       LET before == session_objs[s].drafts
           after == session_objs'[s].drafts
       IN after # before
          => /\ Len(after) = Len(before) + 1
             /\ SubSeq(after, 1, Len(before)) = before
             /\ after[Len(after)].version = Len(before)
             /\ \E h \in Slots :
                  /\ handlers[h].pc = "say_revision"
                  /\ handlers[h].sid = s
                  /\ handlers'[h].pc = "done"
                  /\ after[Len(after)].revision_request = handlers[h].text]_vars

\* C12: with events handled one at a time, a reply classified as a question
\* is answered or apologised for and changes nothing: every step of its
\* handler leaves the sessions as they are, the session iterating, and the
\* handler returns only from the post of the answer or of the apology.
C12_QuestionChangesNothing ==
  [][\A h \in Slots :
       LET a == handlers[h]
           b == handlers'[h]
       IN /\ (b.route = "question" /\ b # a)
             => /\ UNCHANGED <<draft_sessions, session_objs, voice_feedback>>
                /\ b.thread_ts \in DOMAIN draft_sessions
                /\ session_objs'[draft_sessions[b.thread_ts]].status = "iterating"
          /\ (a.pc = "classify" /\ b.route = "question")
             => b.pc = "answer_question"
          /\ (a.pc = "answer_question" /\ b # a)
             => b.pc \in {"say_answer", "say_sorry_question"}
          /\ (a.route = "question" /\ a.pc # "done" /\ b.pc = "done")
             => a.pc \in {"say_answer", "say_sorry_question"}]_vars

\* C12's case: a question about a session with a revision has been handled;
\* the session is iterating with its two drafts
C12_Witness ==
  \E h \in Slots :
    /\ handlers[h].pc = "done"
    /\ handlers[h].route = "question"
    /\ handlers[h].thread_ts \in DOMAIN draft_sessions
    /\ LET session == session_objs[draft_sessions[handlers[h].thread_ts]]
       IN session.status = "iterating" /\ Len(session.drafts) = 2

\* C13: the session stored for a thread is never replaced by a fresh one: as
\* long as the thread is in the store, its session keeps the drafts it has
\* and its status does not go back.
C13_SessionIsNotReplaced ==
  [][\A t \in (DOMAIN draft_sessions) \cap (DOMAIN draft_sessions') :
       LET before == session_objs[draft_sessions[t]]
           after == session_objs'[draft_sessions'[t]]
       IN /\ Len(after.drafts) >= Len(before.drafts)
          /\ SubSeq(after.drafts, 1, Len(before.drafts)) = before.drafts
          /\ Rank(after.status) >= Rank(before.status)]_vars

\* C14: a top-level message of a user who has a pending confirmation takes
\* the entry out of pending_confirmations and is handled as the answer to it,
\* never parsed as a fresh command; what is then executed, or asked about
\* again, is the intent of the entry with the entities of the entry merged
\* with those of the answer; and pending_confirmations holds at most one
\* entry for a user.
C14_PendingConfirmationTakesNextMessage ==
  [][/\ DOMAIN pending_confirmations' \subseteq Users
     /\ \A h \in Slots :
          LET a == handlers[h]
              b == handlers'[h]
          IN /\ (/\ Takes(h)
                 /\ b.event = "toplevel"
                 /\ b.user \in DOMAIN pending_confirmations)
                => /\ b.user \notin DOMAIN pending_confirmations'
                   /\ b.route = "confirmation_response"
                   /\ b.pc \in {"reparse", "say_cancelled"}
                   /\ b.pc = "reparse" => b.pending = pending_confirmations[b.user]
             /\ (a.pc = "reparse" /\ b # a)
                => /\ b.pc \in {"run_intent", "say_missing", "say_reclarify", "done"}
                   /\ b.pc # "done"
                      => /\ b.intent = a.pending.intent
                         /\ b.entities = [k \in EntityKeys |->
                              IF b.parsed.entities[k] # None
                              THEN b.parsed.entities[k]
                              ELSE a.pending.entities[k]]
             /\ (b.route = "confirmation_response" /\ b # a) => b.pc # "parse"]_vars

\* C14's case: the answer to a pending confirmation was parsed as another
\* intent, and the intent of the entry is run with an entity of the entry
C14_Witness ==
  \E h \in Slots :
    /\ handlers[h].route = "confirmation_response"
    /\ handlers[h].pc = "run_intent"
    /\ handlers[h].intent = "add_monitor"
    /\ handlers[h].parsed.intent = "list_voices"
    /\ handlers[h].parsed.entities["handle"] = None
    /\ handlers[h].entities["handle"] # None
    /\ handlers[h].user \notin DOMAIN pending_confirmations

\* the iterating sessions whose thread id, or whose latest draft's message,
\* is the message m
Addressed(m) ==
  {t \in DOMAIN draft_sessions :
     LET session == session_objs[draft_sessions[t]]
     IN /\ session.status = "iterating"
        /\ m \in {t, session.drafts[Len(session.drafts)].message_ts}}

C16_SuggestedThreadBecomesSession ==
  [][\A h \in Slots :
       LET a == handlers[h]
           b == handlers'[h]
           t == a.thread_ts
       IN (a.pc = "check_suggested" /\ b # a)
          => \/ /\ b.pc = "done"
                /\ b.route = "dropped"
                /\ UNCHANGED <<draft_sessions, session_objs>>
             \/ /\ t \in DOMAIN draft_sessions'
                /\ draft_sessions'[t] \notin DOMAIN session_objs
                /\ \E tw \in monitored_tweets :
                     /\ tw.slack_message_ts = t
                     /\ tw.suggested_content # None
                     /\ LET session == session_objs'[draft_sessions'[t]]
                        IN /\ Len(session.drafts) = 1
                           /\ session.drafts[1].version = 0
                           /\ session.drafts[1].content = tw.suggested_content
                           /\ session.drafts[1].revision_request = NoText
                           /\ session.drafts[1].message_ts = t
                           /\ b.sid = draft_sessions'[t]
                           /\ \/ /\ FastPath(a.text)
                                 /\ session.status = "approved"
                                 /\ b.route = "approval"
                                 /\ b.pc = "say_locked"
                              \/ /\ ~FastPath(a.text)
                                 /\ session.status = "iterating"
                                 /\ b.pc = "classify"]_vars

\* C16's case: a reply that is no approval materialized the session of the
\* suggested tweet and waits for the classifier
C16_Witness ==
  \E h \in Slots :
    /\ handlers[h].pc = "classify"
    /\ handlers[h].thread_ts \in {tw.slack_message_ts : tw \in monitored_tweets}
    /\ handlers[h].thread_ts \in DOMAIN draft_sessions
    /\ draft_sessions[handlers[h].thread_ts] = handlers[h].sid
    /\ Len(session_objs[handlers[h].sid].drafts) = 1

\* no stored tweet with suggested content has the message id t
NoSuggestion(t) ==
  \A tw \in monitored_tweets :
    tw.slack_message_ts = t => tw.suggested_content = None

\* C17: every step of the handler of a reply to a thread that has no session
\* and no suggested tweet leaves the sessions, the pending confirmations, the
\* feedback rows and the messages as they are; the reply is looked up,
\* dropped, and never handed to the intent parser.
C17_UnknownThreadChangesNothing ==
  [][\A h \in Slots :
       LET a == handlers[h]
           b == handlers'[h]
       IN (/\ b # a
           /\ b.event = "message"
           /\ b.thread_ts \notin DOMAIN draft_sessions
           /\ NoSuggestion(b.thread_ts))
          => /\ UNCHANGED <<draft_sessions, session_objs, pending_confirmations,
                            voice_feedback, next_ts, next_sid>>
             /\ b.route = "dropped"
             /\ \/ Takes(h) /\ b.pc = "check_suggested"
                \/ a.pc = "check_suggested" /\ b.pc = "done"]_vars

\* C17's case: a reply under an alert without suggested content has been
\* looked up and dropped
C17_Witness ==
  \E h \in Slots :
    /\ handlers[h].pc = "done"
    /\ handlers[h].event = "message"
    /\ handlers[h].route = "dropped"
    /\ \E tw \in monitored_tweets :
         tw.slack_message_ts = handlers[h].thread_ts /\ tw.suggested_content = None
    /\ draft_sessions = <<>>

\* C18: with events handled one at a time, the reply "yes" to a session in
\* learnings_pending with pending learnings goes to the store with all the
\* pending learnings, the content of drafts[0] and the content of the last
\* draft; the store's success adds exactly one row, carrying them and the
\* thread's id; no other step adds a row; and the post that follows the row
\* ends the handler with the session complete.
C18_YesStoresOneFeedbackRow ==
  [][/\ \A h \in Slots :
          LET a == handlers[h]
              b == handlers'[h]
          IN /\ (/\ Takes(h)
                 /\ b.event = "message"
                 /\ b.thread_ts \in DOMAIN draft_sessions
                 /\ Strip(Lower(b.text)) = <<"y", "e", "s">>)
                => LET session == session_objs[draft_sessions[b.thread_ts]]
                   IN (/\ session.status = "learnings_pending"
                       /\ session.pending_learnings # <<>>)
                      => /\ b.pc = "feedback_create"
                         /\ b.learnings = session.pending_learnings
                         /\ b.original_content = session.drafts[1].content
                         /\ b.final_content =
                              session.drafts[Len(session.drafts)].content
                         /\ UNCHANGED <<session_objs, voice_feedback>>
             /\ (a.pc = "feedback_create" /\ b # a)
                => LET session == session_objs[a.sid]
                   IN \/ b.pc = "say_couldnt" /\ UNCHANGED voice_feedback
                      \/ /\ b.pc = "say_saved"
                         /\ voice_feedback' = Append(voice_feedback,
                              [pillar |-> session.pillar,
                               original_content |-> session.drafts[1].content,
                               final_content |->
                                 session.drafts[Len(session.drafts)].content,
                               learnings |-> a.learnings,
                               slack_thread_ts |-> a.thread_ts])
             /\ (a.pc = "say_saved" /\ b.pc = "done")
                => session_objs'[a.sid].status = "complete"
     /\ voice_feedback' # voice_feedback
        => \E h \in Slots : handlers[h].pc = "feedback_create"]_vars

\* C18's case: a confirmation has stored a row with both learnings, the
\* original and the revised content, and its session is complete
C18_Witness ==
  \E h \in Slots, i \in 1..Len(voice_feedback) :
    /\ handlers[h].pc = "done"
    /\ handlers[h].route = "confirmation"
    /\ voice_feedback[i].slack_thread_ts = handlers[h].thread_ts
    /\ Len(voice_feedback[i].learnings) = 2
    /\ voice_feedback[i].original_content # voice_feedback[i].final_content
    /\ Len(voice_feedback) = 1
    /\ handlers[h].thread_ts \in DOMAIN draft_sessions
    /\ session_objs[draft_sessions[handlers[h].thread_ts]].status = "complete"

\* the text mentions one of the first three words of the learning
Mentions(text, learning) ==
  LET words == Split(Lower(learning))
  IN \E i \in 1..Len(words) : i <= 3 /\ Contains(Strip(Lower(text)), words[i])

\* the learnings the text does not mention, in their order
RECURSIVE Unmentioned(_, _)
Unmentioned(learnings, text) ==
  IF learnings = <<>> THEN <<>>
  ELSE (IF Mentions(text, Head(learnings)) THEN <<>> ELSE <<Head(learnings)>>)
       \o Unmentioned(Tail(learnings), text)

\* a confirmation reply that is no approval, no "yes, except ..." and no "no"
FreeText(text) ==
  LET t == Strip(Lower(text))
  IN /\ ~FastPath(text)
     /\ ~StartsWith(t, <<"y", "e", "s">>)
     /\ ~Contains(t, <<"e", "x", "c", "e", "p", "t">>)
     /\ ~StartsWith(t, <<"n", "o">>)

\* C19: a free-text reply to a session in learnings_pending is an implicit
\* exception list: the learnings handed to the store are the pending ones
\* the reply does not mention, and nothing is stored when none remains.
C19_FreeTextIsExceptionList ==
  [][\A h \in Slots :
       LET b == handlers'[h]
       IN (/\ Takes(h)
           /\ b.event = "message"
           /\ b.thread_ts \in DOMAIN draft_sessions
           /\ FreeText(b.text))
          => LET session == session_objs[draft_sessions[b.thread_ts]]
                 remaining == Unmentioned(session.pending_learnings, b.text)
             IN (/\ session.status = "learnings_pending"
                 /\ session.pending_learnings # <<>>)
                => IF remaining = <<>> THEN b.pc = "say_none"
                   ELSE b.pc = "feedback_create" /\ b.learnings = remaining]_vars

\* C20: a revision request in which a voice hint was detected is never
\* revised without a voice: either the hint resolved to an account with
\* samples and the revision is styled after it, or the user is told that no
\* voice, or no sample, was found; the handler that tells so appends no draft
\* and calls no revision oracle.
C20_NoVoiceMatchNoRevision ==
  [][\A h \in Slots :
       LET a == handlers[h]
           b == handlers'[h]
       IN /\ (a.pc = "detect_voice" /\ b # a /\ b.voice_hint # NoText)
             => /\ UNCHANGED <<draft_sessions, session_objs>>
                /\ \/ b.pc \in {"say_no_match", "say_no_samples"}
                   \/ /\ b.pc = "revise"
                      /\ b.voice_handle # NoText
                      /\ b.voice_samples # <<>>
          /\ (a.pc \in {"say_no_match", "say_no_samples"} /\ b # a)
             => /\ UNCHANGED <<draft_sessions, session_objs, next_ts>>
                /\ b.pc \in {"done", "say_sorry"}
          /\ (a.pc = "say_sorry" /\ b # a)
             => /\ UNCHANGED <<draft_sessions, session_objs, next_ts>>
                /\ b.pc = "done"]_vars

\* C20's case: a voice hint resolved to no account and the user is being told
C20_Witness ==
  \E h \in Slots :
    /\ handlers[h].pc = "say_no_match"
    /\ handlers[h].voice_hint = ThreadHint
    /\ Len(session_objs[handlers[h].sid].drafts) = 2

\* C21: with events handled one at a time, a revision request whose voice
\* hint resolves to an account with samples calls the voice revision with
\* the sample texts of that account (the account named by the hint, when the
\* hint names one), and the post of its result appends exactly one draft,
\* whose voice_reference is the account's handle and whose revision_request
\* is the text of the request.
C21_VoiceRevisionRecordsReference ==
  [][\A h \in Slots :
       LET a == handlers[h]
           b == handlers'[h]
           named(hint) == {i \in 1..Len(voice_accounts) :
                             <<"@">> \o voice_accounts[i].twitter_handle = hint}
       IN /\ (a.pc = "detect_voice" /\ b.pc = "revise" /\ b.voice_hint # NoText)
             => /\ \E i \in 1..Len(voice_accounts) :
                     /\ b.voice_handle = voice_accounts[i].twitter_handle
                     /\ b.voice_samples = voice_accounts[i].samples
                     /\ b.voice_samples # <<>>
                     /\ named(b.voice_hint) # {} => i \in named(b.voice_hint)
                /\ b.text = a.text
          /\ (a.pc = "revise" /\ a.voice_handle # NoText /\ b # a)
             => /\ UNCHANGED <<draft_sessions, session_objs>>
                /\ \/ b.pc = "say_sorry"
                   \/ /\ b.pc = "say_revision"
                      /\ b.voice_handle = a.voice_handle
                      /\ b.text = a.text
          /\ (a.pc = "say_revision" /\ a.voice_handle # NoText /\ b.pc = "done")
             => LET before == session_objs[a.sid].drafts
                    after == session_objs'[a.sid].drafts
                IN /\ Len(after) = Len(before) + 1
                   /\ SubSeq(after, 1, Len(before)) = before
                   /\ after[Len(after)].voice_reference = a.voice_handle
                   /\ after[Len(after)].revision_request = a.text
                   /\ after[Len(after)].content = a.revised_content]_vars

\* C21's case: a session holds a draft styled after the first voice account
C21_Witness ==
  \E s \in Stored :
    LET drafts == session_objs[s].drafts
    IN /\ Len(drafts) = 2
       /\ drafts[2].voice_reference = voice_accounts[1].twitter_handle
       /\ drafts[2].revision_request # NoText

\* C22: a stored session carries pending learnings only while its status is
\* learnings_pending: none while it is iterating or approved, and none any
\* more once it is complete.
C22_PendingLearningsOnlyWhilePending ==
  \A s \in Stored :
    session_objs[s].pending_learnings # <<>>
      => session_objs[s].status = "learnings_pending"

\* the step in which _generate_post stores the session of a new post
Sweeps == next_sid' # next_sid /\ next_ts' # next_ts

\* C23: the sweep that follows the creation of a session removes exactly the
\* sessions created more than 24 hours before the current time; every other
\* session stays as it was, and the session just created is stored with its
\* one draft and the status iterating.
C23_SweepRemovesExactlyExpired ==
  [][Sweeps =>
       LET kept == {ts \in DOMAIN draft_sessions :
                      ~Expired(session_objs[draft_sessions[ts]])}
       IN /\ DOMAIN draft_sessions' = kept \cup {next_ts}
          /\ \A ts \in kept :
               /\ draft_sessions'[ts] = draft_sessions[ts]
               /\ session_objs'[draft_sessions'[ts]]
                    = session_objs[draft_sessions[ts]]
          /\ LET created == session_objs'[draft_sessions'[next_ts]]
             IN /\ created.status = "iterating"
                /\ Len(created.drafts) = 1
                /\ created.created_at = now]_vars

\* C23's case: of the two sessions created, the older was swept when the
\* newer was stored a day and an hour later
C23_Witness ==
  /\ next_sid = 3
  /\ now = TickHours
  /\ \E ts \in DOMAIN draft_sessions :
       /\ DOMAIN draft_sessions = {ts}
       /\ session_objs[draft_sessions[ts]].created_at = now

\* a session of exactly the maximum age outlives a sweep
C23_KeptAtLimit ==
  /\ now = SESSION_MAX_AGE
  /\ Cardinality(DOMAIN draft_sessions) = 2
  /\ \E ts \in DOMAIN draft_sessions :
       session_objs[draft_sessions[ts]].created_at = 0
  /\ \E ts \in DOMAIN draft_sessions :
       session_objs[draft_sessions[ts]].created_at = now

\* C24: with events handled one at a time, the messages a regular revision
\* hands to the revision oracle are exactly: the source tweet as a user
\* message when the session has one, the original draft as an assistant
\* message, then for every later draft in order its revision request as a user
\* message and its content as an assistant message, then the new request as
\* the last user message.
C24_ReplayIsTheHistory ==
  \A h \in Slots :
    LET hr == handlers[h]
    IN (hr.pc = "revise" /\ hr.voice_handle = NoText)
       => LET session == session_objs[hr.sid]
              drafts == session.drafts
              n == Len(drafts)
              c == IF session.source_tweet_content # None THEN 1 ELSE 0
              m == hr.messages
          IN /\ Len(m) = c + 2 * n
             /\ c = 1 => m[1] = [role |-> "user",
                                 content |-> <<"tweet", session.source_tweet_handle,
                                               session.source_tweet_content>>]
             /\ m[c + 1] = [role |-> "assistant",
                            content |-> <<"original", drafts[1].content>>]
             /\ \A k \in 2..n :
                  /\ m[c + 2 * k - 2] = [role |-> "user",
                                         content |-> drafts[k].revision_request]
                  /\ m[c + 2 * k - 1] = [role |-> "assistant",
                                         content |-> drafts[k].content]
             /\ m[Len(m)] = [role |-> "user", content |-> hr.text]

\* C24's case: a revision of a session with a source tweet and two drafts
\* awaits the oracle
C24_Witness ==
  \E h \in Slots :
    /\ handlers[h].pc = "revise"
    /\ handlers[h].voice_handle = NoText
    /\ Len(session_objs[handlers[h].sid].drafts) = 2
    /\ session_objs[handlers[h].sid].source_tweet_content # None
    /\ Len(handlers[h].messages) = 5

\* a revision of a session without a source tweet awaits the oracle
C24_NoSourceTweet ==
  \E h \in Slots :
    /\ handlers[h].pc = "revise"
    /\ handlers[h].voice_handle = NoText
    /\ session_objs[handlers[h].sid].source_tweet_content = None
    /\ Len(handlers[h].messages) = 2 * Len(session_objs[handlers[h].sid].drafts)

\* C25: a voice revision hands the oracle the same replay of the session's
\* history as a regular revision of the same request would, together with
\* the samples of the voice.
C25_VoiceRevisionReplaysHistory ==
  \A h \in Slots :
    LET hr == handlers[h]
    IN (hr.pc = "revise" /\ hr.voice_handle # NoText)
       => /\ hr.voice_samples # <<>>
          /\ hr.messages = _build_revision_messages(session_objs[hr.sid], hr.text)

\* C26: for every thread reply in an iterating session that the classifier
\* does not take for an approval, whether it takes it for a revision or for a
\* question, the call that follows the classification is the voice detection.
C26_VoiceDetectionForEveryNonApproval ==
  [][\A h \in Slots :
       LET a == handlers[h]
           b == handlers'[h]
       IN (a.pc = "classify" /\ b.route \in {"revision", "question"})
          => b.pc = "detect_voice"]_vars

\* what the code does with a question: from the classification to its end the
\* handler awaits the answer oracle and its posts, and never the voice detection
C26_QuestionRouteSkipsDetection ==
  \A h \in Slots :
    handlers[h].route = "question"
      => handlers[h].pc \in {"answer_question", "say_answer",
                             "say_sorry_question", "done"}

\* C27: when a handler that approved a session finishes, whether learning
\* extraction raised or a post failed, the status of the session is
\* learnings_pending or complete, never approved.
C27_ApprovedIsTransient ==
  [][\A h \in Slots :
       LET a == handlers[h]
           b == handlers'[h]
       IN (a.pc \in {"say_confirm", "say_locked"} /\ b.pc = "done"
           /\ a.sid \in DOMAIN session_objs')
          => session_objs'[a.sid].status \in {"learnings_pending", "complete"}]_vars

\* C28: a draft is appended only to a session whose status is iterating, also
\* when the revision awaited its oracle while an approval of the same thread
\* was handled.
C28_DraftsGrowOnlyWhileIterating ==
  [][\A s \in DOMAIN session_objs \cap DOMAIN session_objs' :
       session_objs'[s].drafts # session_objs[s].drafts
         => session_objs[s].status = "iterating"]_vars

\* C29: whatever the sequence of approvals and confirmation replies in a
\* thread, at most one feedback row is stored for the thread.
C29_OneFeedbackRowPerThread ==
  \A i, j \in 1..Len(voice_feedback) :
    voice_feedback[i].slack_thread_ts = voice_feedback[j].slack_thread_ts
      => i = j

\* the feedback rows stored for a thread
RowsOf(thread_ts) ==
  {i \in 1..Len(voice_feedback) : voice_feedback[i].slack_thread_ts = thread_ts}

====
